---- MODULE Spec2Model ----
(***************************************************************************)
(* Depression Risk Classifier (streamlit_app.py).                          *)
(*                                                                         *)
(* The script loads a model artifact, reads the questionnaire widgets and, *)
(* when the "Predict Risk" button is pressed, normalises the answers,      *)
(* derives AGE_R_LMP and P_STRESS, assembles the feature frame, projects   *)
(* it onto the artifact's feature list, scores it and renders the result.  *)
(* Every failure inside the prediction block is caught by one broad        *)
(* `except Exception` and rendered as an error message.                    *)
(*                                                                         *)
(* Probabilities and thresholds are fixed-point integers: ProbScale units  *)
(* make 1.0, so 0.4999, 0.5 and 0.5001 are 4999, 5000 and 5001.            *)
(* An optional value is a sequence: <<>> is "no value", <<v>> is v.        *)
(***************************************************************************)
EXTENDS Integers, Sequences, FiniteSets, TLC

\* ------------------------------------------------------------------------
\* Bounds of the explored input space
\* ------------------------------------------------------------------------

\* Birth / reference years explored besides 2020: 1979 .. 1979 + YearSpan.
YearSpan == 1

\* Fixed-point denominator of probabilities and thresholds (1.0 = ProbScale).
ProbScale == 100 * 100

None == <<>>

Some(v) == <<v>>

\* ------------------------------------------------------------------------
\* datetime.date values
\* ------------------------------------------------------------------------

Date(y, m, d) == [year |-> y, month |-> m, day |-> d]

IsLeap(y) == (y % 4 = 0 /\ y % 100 # 0) \/ y % 400 = 0

DaysInMonth(y, m) ==
    IF m = 2 THEN (IF IsLeap(y) THEN 29 ELSE 28)
    ELSE IF m \in {4, 6, 9, 11} THEN 30 ELSE 31

IsDate(dte) ==
    /\ dte.month \in 1..12
    /\ dte.day \in 1..DaysInMonth(dte.year, dte.month)

\* date ordering (year, month, day)
DateLess(a, b) ==
    \/ a.year < b.year
    \/ a.year = b.year /\ a.month < b.month
    \/ a.year = b.year /\ a.month = b.month /\ a.day < b.day

\* st.date_input(min_value=dt.date(1910, 1, 1), ...)
MinDate == Date(1910, 1, 1)

\* Python tuple comparison (m1, d1) < (m2, d2)
TupleLess(m1, d1, m2, d2) == m1 < m2 \/ (m1 = m2 /\ d1 < d2)

\* int - bool: True counts as 1, False as 0
BoolToInt(b) == IF b THEN 1 ELSE 0

\* ------------------------------------------------------------------------
\* Helper functions (module level)
\* ------------------------------------------------------------------------

\* A plausible slip: elapsed years without the "birthday not yet reached" term.
calculate_age_r_lmp_noborrow(dob, lmp_date) == lmp_date.year - dob.year

calculate_age_r_lmp(dob, lmp_date) ==
    lmp_date.year - dob.year
        - BoolToInt(TupleLess(lmp_date.month, lmp_date.day, dob.month, dob.day))

\* A plausible slip: the positively phrased item reverse-scored.
calculate_p_stress_inverted(control, confid, yourway, overcome) ==
    control + (6 - confid) + yourway + overcome

calculate_p_stress(control, confid, yourway, overcome) ==
    control + confid + yourway + overcome

\* ------------------------------------------------------------------------
\* Label dictionaries of the UI section
\* ------------------------------------------------------------------------

scale_labels ==
    (1 :> "Never") @@ (2 :> "Almost Never") @@ (3 :> "Sometimes")
        @@ (4 :> "Fairly Often") @@ (5 :> "Very Often")

\* A plausible slip: two codes exchanged in the table.
health_map_swapped ==
    ("Excellent" :> 1) @@ ("Very Good" :> 2) @@ ("Good" :> 4)
        @@ ("Fair" :> 3) @@ ("Poor" :> 5)

health_map ==
    ("Excellent" :> 1) @@ ("Very Good" :> 2) @@ ("Good" :> 3)
        @@ ("Fair" :> 4) @@ ("Poor" :> 5)

\* {v: k for k, v in scale_labels.items()}: keyed by the dictionary's values;
\* for a value held by several keys the last key in insertion order wins.
scale_reverse ==
    [v \in {scale_labels[k] : k \in DOMAIN scale_labels} |->
        CHOOSE k \in DOMAIN scale_labels :
            /\ scale_labels[k] = v
            /\ \A j \in DOMAIN scale_labels : scale_labels[j] = v => j <= k]

\* 2 if answer == "Yes" else 1
YesNoCode(answer) == IF answer = "Yes" THEN 2 ELSE 1

\* The exceptions the prediction block can meet; args is the set of offending
\* keys (KeyError) or the estimator's complaint (ValueError).
KeyError(keys) == [type |-> "KeyError", args |-> keys]

ValueError(msg) == [type |-> "ValueError", args |-> {msg}]

\* Keys of the dictionary literal handed to pd.DataFrame, in literal order.
AssembledColumns ==
    << "TENSE", "IRRITAB", "CONTROL", "P_STRESS", "YOURWAY",
       "NISWEAT", "AGE_R_LMP", "SMOKE_R", "DIFFISLP", "HEALTH" >>

Range(s) == { s[i] : i \in DOMAIN s }

\* ------------------------------------------------------------------------
\* pandas: one-row DataFrame and column selection by a list of names
\* ------------------------------------------------------------------------

\* pd.DataFrame([{...}]): one row, columns in the order of the literal's keys.
DataFrame(columns, mapping) ==
    [columns |-> columns, row |-> [i \in DOMAIN columns |-> mapping[columns[i]]]]

\* value of the named column (column names of the assembled frame are unique)
Cell(frame, name) ==
    frame.row[CHOOSE i \in DOMAIN frame.columns : frame.columns[i] = name]

\* A plausible slip: names the frame lacks are dropped instead of raising
\* (what DataFrame.filter(items=...) does).
GetColumns_lenient(frame, names) ==
    LET kept == SelectSeq(names, LAMBDA n : n \in Range(frame.columns))
    IN  [ok |-> TRUE,
         frame |-> [columns |-> kept,
                    row |-> [i \in DOMAIN kept |-> Cell(frame, kept[i])]]]

\* A plausible slip: the requested columns kept in the frame's own order
\* (what a boolean column mask does).
GetColumns_frameorder(frame, names) ==
    LET missing == Range(names) \ Range(frame.columns)
        kept == SelectSeq(frame.columns, LAMBDA n : n \in Range(names))
    IN  IF missing # {}
        THEN [ok |-> FALSE, exc |-> KeyError(missing)]
        ELSE [ok |-> TRUE,
              frame |-> [columns |-> kept,
                         row |-> [i \in DOMAIN kept |-> Cell(frame, kept[i])]]]

\* input_data[top_features]: the listed columns in the listed order; a name
\* that is not a column raises KeyError naming the missing columns.
GetColumns(frame, names) ==
    LET missing == Range(names) \ Range(frame.columns)
    IN  IF missing # {}
        THEN [ok |-> FALSE, exc |-> KeyError(missing)]
        ELSE [ok |-> TRUE,
              frame |-> [columns |-> names,
                         row |-> [i \in DOMAIN names |-> Cell(frame, names[i])]]]

\* ------------------------------------------------------------------------
\* The deserialized estimator.  It is opaque to the script; the artifacts
\* explored are a family of fitted pipelines that reject a frame whose
\* columns differ from the columns seen at fit time and otherwise return a
\* probability in [0, 1].
\* ------------------------------------------------------------------------

RECURSIVE SumSeq(_)
SumSeq(s) == IF s = <<>> THEN 0 ELSE Head(s) + SumSeq(Tail(s))

Clamp(x) == IF x < 0 THEN 0 ELSE IF x > ProbScale THEN ProbScale ELSE x

\* log_reg_model.predict_proba(input_data)[:, 1][0]
predict_proba(model, frame) ==
    IF frame.columns # model.feature_names_in
    THEN [ok |-> FALSE, exc |-> ValueError("feature names mismatch")]
    ELSE [ok |-> TRUE,
          prob |-> Clamp(model.intercept + model.slope * SumSeq(frame.row))]

\* ------------------------------------------------------------------------
\* Streamlit output elements of one script run
\* ------------------------------------------------------------------------

Element(widget, body, nums, cause) ==
    [widget |-> widget, body |-> body, nums |-> nums, cause |-> cause]

AtRiskVerdict ==
    Element("error", "This person is at risk for depression.", <<>>, None)

NotAtRiskVerdict ==
    Element("success", "This person is not at high risk for depression.", <<>>, None)

\* go.Indicator: value = prob * 100, steps [0, threshold*100] and [threshold*100, 100]
Gauge(prob, threshold) ==
    Element("plotly_chart", "Depression Risk (%)",
            << prob * 100, 0, threshold * 100, threshold * 100, 100 * ProbScale >>,
            None)

\* except Exception as e: st.error(f"Error processing input: {e}")
ExceptHandler(e) == << Element("error", "Error processing input", <<>>, Some(e)) >>

\* ------------------------------------------------------------------------
\* The prediction block (body of `if st.button(...)`)
\* ------------------------------------------------------------------------

\* What one run of the block leaves behind: its local variables (None while
\* unassigned), the frames handed to predict_proba, the exception caught
\* and the elements written to the page.
NoRun ==
    [codes |-> None, frame |-> None, input_data |-> None, scored |-> <<>>,
     prob |-> None, pred |-> None, error |-> None, display |-> <<>>]

\* Lines 82-94: the five yes/no codes, then health_map[health], then the four
\* scale_reverse lookups in source order; the first missing key raises.
Normalize(a) ==
    LET yesno == [diffislp_val |-> YesNoCode(a.diffislp),
                  nisweat_val  |-> YesNoCode(a.nisweat),
                  tense_val    |-> YesNoCode(a.tense),
                  irritab_val  |-> YesNoCode(a.irritab),
                  smoke_val    |-> YesNoCode(a.smoke_r)]
    IN  IF a.health \notin DOMAIN health_map
            THEN [ok |-> FALSE, exc |-> KeyError({a.health})]
        ELSE IF a.control \notin DOMAIN scale_reverse
            THEN [ok |-> FALSE, exc |-> KeyError({a.control})]
        ELSE IF a.confid \notin DOMAIN scale_reverse
            THEN [ok |-> FALSE, exc |-> KeyError({a.confid})]
        ELSE IF a.yourway \notin DOMAIN scale_reverse
            THEN [ok |-> FALSE, exc |-> KeyError({a.yourway})]
        ELSE IF a.overcome \notin DOMAIN scale_reverse
            THEN [ok |-> FALSE, exc |-> KeyError({a.overcome})]
        ELSE [ok |-> TRUE,
              codes |-> yesno @@
                  [health_val   |-> health_map[a.health],
                   control_val  |-> scale_reverse[a.control],
                   confid_val   |-> scale_reverse[a.confid],
                   yourway_val  |-> scale_reverse[a.yourway],
                   overcome_val |-> scale_reverse[a.overcome]]]

\* Lines 96-112: derived features and the ten-column frame.
Assemble(a, c) ==
    LET p_stress  == calculate_p_stress(c.control_val, c.confid_val,
                                        c.yourway_val, c.overcome_val)
        age_r_lmp == calculate_age_r_lmp(a.dob, a.lmp_date)
    IN  DataFrame(AssembledColumns,
            [TENSE |-> c.tense_val, IRRITAB |-> c.irritab_val,
             CONTROL |-> c.control_val, P_STRESS |-> p_stress,
             YOURWAY |-> c.yourway_val, NISWEAT |-> c.nisweat_val,
             AGE_R_LMP |-> age_r_lmp, SMOKE_R |-> c.smoke_val,
             DIFFISLP |-> c.diffislp_val, HEALTH |-> c.health_val])

\* A plausible slip: strict comparison.
Classify_strict(prob, threshold) == IF prob > threshold THEN 1 ELSE 0

\* pred = int(prob >= threshold)
Classify(prob, threshold) == IF prob >= threshold THEN 1 ELSE 0

\* Lines 119-144: label, results header, probability, verdict and gauge.
Results(sofar, prob, threshold) ==
    LET pred == Classify(prob, threshold)
    IN  [sofar EXCEPT
            !.prob = Some(prob),
            !.pred = Some(pred),
            !.display =
                << Element("subheader", "Results", <<>>, None),
                   Element("write", "Predicted Risk Probability", <<prob>>, None),
                   IF pred = 1 THEN AtRiskVerdict ELSE NotAtRiskVerdict,
                   Gauge(prob, threshold) >>]

Caught(sofar, e) == [sofar EXCEPT !.error = Some(e), !.display = ExceptHandler(e)]

\* A plausible slip: a failed scoring call answered with probability 0.
AfterScoring_default(sofar, r, threshold) ==
    IF r.ok THEN Results(sofar, r.prob, threshold) ELSE Results(sofar, 0, threshold)

\* Lines 118-147 once predict_proba has returned or raised.
AfterScoring(sofar, r, threshold) ==
    IF r.ok THEN Results(sofar, r.prob, threshold) ELSE Caught(sofar, r.exc)

\* Lines 80-147.
PredictionBlock(mi, a) ==
    LET n == Normalize(a)
    IN  IF ~n.ok THEN Caught(NoRun, n.exc)
        ELSE
        LET frame == Assemble(a, n.codes)
            built == [NoRun EXCEPT !.codes = Some(n.codes), !.frame = Some(frame)]
            sel   == GetColumns(frame, mi.features)
        IN  IF ~sel.ok THEN Caught(built, sel.exc)
            ELSE AfterScoring(
                    [built EXCEPT !.input_data = Some(sel.frame),
                                  !.scored = << sel.frame >>],
                    predict_proba(mi.model, sel.frame),
                    mi.threshold)

\* ------------------------------------------------------------------------
\* State
\* ------------------------------------------------------------------------

VARIABLES
    model_info,   \* the loaded artifact: model, threshold, features
    answers,      \* current values of the questionnaire widgets
    run,          \* what the latest script run's prediction block left behind
    first         \* history: answers and outcome of the first prediction made

vars == << model_info, answers, run, first >>

\* ------------------------------------------------------------------------
\* Explored inputs
\* ------------------------------------------------------------------------

\* The day of the session: max_value=dt.date.today() of both date inputs.
Today == Date(2020, 5, 16)

Years == { 1979 + i : i \in 0..YearSpan } \cup { 2020 }

MonthDays == { <<2, 28>>, <<2, 29>>, <<3, 1>>, <<5, 14>>, <<5, 15>>, <<5, 16>> }

\* Dates a date_input can return: real calendar dates in [MinDate, Today].
DateInputs ==
    { dte \in { Date(y, md[1], md[2]) : y \in Years, md \in MonthDays } \cup { Today } :
        /\ IsDate(dte)
        /\ ~DateLess(dte, MinDate)
        /\ ~DateLess(Today, dte) }

\* Option lists of the widgets: ["No", "Yes"], list(scale_labels.values()),
\* list(health_map.keys()).
YesNoOptions == { "No", "Yes" }

ScaleOptions == { scale_labels[k] : k \in DOMAIN scale_labels }

HealthOptions == DOMAIN health_map

\* Raw answers handed to the prediction block: the options plus one value
\* outside each vocabulary (the block itself is what accepts or rejects it).
YesNoInputs == YesNoOptions \cup { "maybe" }

ScaleInputs == ScaleOptions \cup { "Rarely" }

HealthInputs == HealthOptions \cup { "Terrible" }

\* Widget defaults of a fresh session: today's date, first option of each list.
DefaultAnswers ==
    [dob |-> Today, lmp_date |-> Today,
     diffislp |-> "No", nisweat |-> "No", tense |-> "No", irritab |-> "No",
     control |-> "Never", confid |-> "Never", yourway |-> "Never",
     overcome |-> "Never", smoke_r |-> "No", health |-> "Excellent"]

DateFields == { "dob", "lmp_date" }

YesNoFields == { "diffislp", "nisweat", "tense", "irritab", "smoke_r" }

ScaleFields == { "control", "confid", "yourway", "overcome" }

\* The answer sets one widget interaction can lead to.
WidgetChanges(a) ==
    { [a EXCEPT ![f] = v] : f \in DateFields, v \in DateInputs }
    \cup { [a EXCEPT ![f] = v] : f \in YesNoFields, v \in YesNoInputs }
    \cup { [a EXCEPT ![f] = v] : f \in ScaleFields, v \in ScaleInputs }
    \cup { [a EXCEPT !.health = v] : v \in HealthInputs }

Touched(a, fields) == \E f \in fields : a[f] # DefaultAnswers[f]

OutOfVocabulary(a) ==
    { f \in YesNoFields : a[f] \notin YesNoOptions }
    \cup { f \in ScaleFields : a[f] \notin ScaleOptions }
    \cup { f \in {"health"} : a[f] \notin HealthOptions }

\* Explored answer sets: at most one section of the form away from its
\* defaults and at most one value outside its vocabulary; every such
\* combination of values within the section.
AnswerInputs(a) ==
    /\ BoolToInt(Touched(a, DateFields)) + BoolToInt(Touched(a, YesNoFields))
        + BoolToInt(Touched(a, ScaleFields)) + BoolToInt(Touched(a, {"health"})) <= 1
    /\ Cardinality(OutOfVocabulary(a)) <= 1

\* The few answer sets replayed in every order by the history specification.
SeqInputs(a) ==
    a \in { DefaultAnswers,
            [DefaultAnswers EXCEPT !.tense = "Yes"],
            [DefaultAnswers EXCEPT !.tense = "maybe"],
            [DefaultAnswers EXCEPT !.control = "Rarely"],
            [DefaultAnswers EXCEPT !.health = "Terrible"],
            [DefaultAnswers EXCEPT !.confid = "Very Often"],
            [DefaultAnswers EXCEPT !.overcome = "Sometimes"],
            [DefaultAnswers EXCEPT !.lmp_date = Date(1979, 5, 15)],
            [DefaultAnswers EXCEPT !.dob = Date(1980, 5, 15)] }

\* Feature lists an artifact may carry: orders over assembled names, and
\* lists naming columns the block never assembles.
FeatureOrders ==
    { << "P_STRESS", "TENSE" >>,
      << "TENSE", "P_STRESS" >>,
      << "AGE_R_LMP", "HEALTH", "CONTROL", "NISWEAT" >>,
      << "YOURWAY", "IRRITAB", "SMOKE_R", "DIFFISLP" >>,
      << "P_STRESS", "UNKNOWN_FEATURE" >>,
      << "CONFID", "OVERCOME", "TENSE" >> }

\* joblib.load("log_reg_model.pkl"): for every feature list, an estimator
\* fitted on that list with the threshold at one half and a steeper one with
\* the threshold at 1.0; and estimators fitted on another column order than
\* the artifact lists.  intercept, slope and threshold are in ProbScale units.
Artifacts ==
    { [model |-> [feature_names_in |-> f, intercept |-> ProbScale \div 2 - 10,
                  slope |-> 1],
       threshold |-> ProbScale \div 2, features |-> f] : f \in FeatureOrders }
    \cup
    { [model |-> [feature_names_in |-> f, intercept |-> 0,
                  slope |-> ProbScale \div 20],
       threshold |-> ProbScale, features |-> f] : f \in FeatureOrders }
    \cup
    { [model |-> [feature_names_in |-> << "TENSE", "P_STRESS" >>,
                  intercept |-> ProbScale \div 2 - 10, slope |-> 1],
       threshold |-> ProbScale \div 2, features |-> f] :
        f \in { << "P_STRESS", "TENSE" >>,
                << "AGE_R_LMP", "HEALTH", "CONTROL", "NISWEAT" >> } }

\* ------------------------------------------------------------------------
\* Behaviour
\* ------------------------------------------------------------------------

\* First script run of a session: artifact loaded, widgets at their defaults,
\* button not pressed.
Init ==
    /\ model_info \in Artifacts
    /\ answers = DefaultAnswers
    /\ run = NoRun
    /\ first = None

\* A widget interaction leading to answer set a: the script reruns with the
\* button unpressed, so the prediction block is skipped and nothing of it is
\* rendered.
Rerun(a) ==
    /\ answers' = a
    /\ run' = NoRun
    /\ UNCHANGED model_info

\* A plausible slip: the feature list reordered in place while projecting.
ClickPredict_inplace ==
    /\ run' = PredictionBlock(model_info, answers)
    /\ model_info' = [model_info EXCEPT !.features =
            [i \in DOMAIN @ |-> @[Len(@) + 1 - i]]]
    /\ UNCHANGED answers

\* Pressing "Predict Risk": the script reruns with the current answers and
\* the prediction block executes.
ClickPredict ==
    /\ run' = PredictionBlock(model_info, answers)
    /\ UNCHANGED << model_info, answers >>

ChangeAnswers ==
    \E a \in WidgetChanges(answers) : AnswerInputs(a) /\ Rerun(a) /\ UNCHANGED first

Predict == ClickPredict /\ UNCHANGED first

Next == ChangeAnswers \/ Predict

Spec == Init /\ [][Next]_vars

\* The same program over SeqInputs, remembering the first prediction made.
ChangeAnswersSeq ==
    \E a \in WidgetChanges(answers) : SeqInputs(a) /\ Rerun(a) /\ UNCHANGED first

PredictSeq ==
    /\ ClickPredict
    /\ first' = IF first = None THEN Some([answers |-> answers, run |-> run'])
                ELSE first

NextSeq == ChangeAnswersSeq \/ PredictSeq

SpecSeq == Init /\ [][NextSeq]_vars

Predicted == run.display # <<>>

\* ------------------------------------------------------------------------
\* Properties
\* ------------------------------------------------------------------------

Unwrap(opt) == opt[1]

\* C1: whenever a probability was obtained, the label is 1 exactly when the
\* probability is at least the stored threshold (equality included) and 0
\* otherwise, and the at-risk verdict is on the page exactly when the label
\* is 1 (the not-at-risk verdict exactly when it is 0).
C1_LabelMatchesThreshold ==
    /\ run.prob # None =>
        /\ (Unwrap(run.prob) >= model_info.threshold => run.pred = Some(1))
        /\ (Unwrap(run.prob) < model_info.threshold => run.pred = Some(0))
    /\ (AtRiskVerdict \in Range(run.display)) <=> (run.pred = Some(1))
    /\ (NotAtRiskVerdict \in Range(run.display)) <=> (run.pred = Some(0))

C1_Witness ==
    /\ run.prob = Some(model_info.threshold)
    /\ run.pred = Some(1)
    /\ AtRiskVerdict \in Range(run.display)

\* Number of birthdays passed: anniversaries (same month and day, k years
\* after birth) that are not later than the reference date.
CompletedYears(birth, reference) ==
    Cardinality({ k \in 1..(reference.year - birth.year) :
        ~DateLess(reference, Date(birth.year + k, birth.month, birth.day)) })

\* C2: the AGE_R_LMP placed in the frame is reference.year - birth.year,
\* less 1 exactly when (reference.month, reference.day) precedes
\* (birth.month, birth.day); for a reference date on or after the birth date
\* it is the number of whole completed years; and birth 1980-05-15 gives 39,
\* 40, 40 for 2020-05-14, 2020-05-15, 2020-05-16.
C2_AgeFormula ==
    /\ run.frame # None =>
        LET b == answers.dob
            r == answers.lmp_date
            age == Cell(Unwrap(run.frame), "AGE_R_LMP")
            before == \/ r.month < b.month
                      \/ r.month = b.month /\ r.day < b.day
        IN  /\ (before => age = r.year - b.year - 1)
            /\ (~before => age = r.year - b.year)
            /\ (~DateLess(r, b) => age >= 0 /\ age = CompletedYears(b, r))
    /\ calculate_age_r_lmp(Date(1980, 5, 15), Date(2020, 5, 14)) = 39
    /\ calculate_age_r_lmp(Date(1980, 5, 15), Date(2020, 5, 15)) = 40
    /\ calculate_age_r_lmp(Date(1980, 5, 15), Date(2020, 5, 16)) = 40

C2_Witness ==
    /\ run.frame # None
    /\ answers.dob = Date(1980, 5, 15)
    /\ answers.lmp_date = Date(2020, 5, 14)
    /\ Cell(Unwrap(run.frame), "AGE_R_LMP") = 39

YesNoCodeOf ==
    [diffislp |-> "diffislp_val", nisweat |-> "nisweat_val", tense |-> "tense_val",
     irritab |-> "irritab_val", smoke_r |-> "smoke_val"]

C4_DateOrderRejected ==
    Predicted /\ DateLess(answers.lmp_date, answers.dob) =>
        /\ run.error # None
        /\ run.frame = None
        /\ run.prob = None
        /\ run.pred = None

\* All orderings of the positions of a sequence.
Perms(n) == { p \in [1..n -> 1..n] : \A i, j \in 1..n : p[i] = p[j] => i = j }

Permuted(s, p) == [i \in DOMAIN s |-> s[p[i]]]

\* C5: when every name of the artifact's feature list is an assembled
\* column, the frame handed to the model has exactly the listed names as
\* its columns, in the listed order, each with the value the ten-column
\* frame holds under that name; and selecting with any permutation of the
\* list yields that frame with columns and values permuted the same way.
C5_ProjectionFollowsOrder ==
    run.frame # None /\ Range(model_info.features) \subseteq Range(AssembledColumns) =>
        LET full == Unwrap(run.frame)
            tf == model_info.features
        IN  /\ Len(run.scored) = 1
            /\ run.scored[1].columns = tf
            /\ Len(run.scored[1].row) = Len(tf)
            /\ \A i \in 1..Len(tf) :
                \E j \in 1..Len(AssembledColumns) :
                    /\ AssembledColumns[j] = tf[i]
                    /\ full.columns[j] = tf[i]
                    /\ run.scored[1].row[i] = full.row[j]
            /\ \A p \in Perms(Len(tf)) :
                LET sel == GetColumns(full, Permuted(tf, p))
                IN  /\ sel.ok
                    /\ sel.frame.columns = Permuted(run.scored[1].columns, p)
                    /\ sel.frame.row = Permuted(run.scored[1].row, p)

C5_Witness ==
    /\ model_info.features = << "P_STRESS", "TENSE" >>
    /\ answers.tense = "Yes"
    /\ run.frame # None
    /\ Len(run.scored) = 1
    /\ run.scored[1].columns = << "P_STRESS", "TENSE" >>
    /\ run.scored[1].row = << 4, 2 >>

\* C6: when the artifact's feature list holds a name that is not one of the
\* ten assembled columns, a prediction request ends in an error, the
\* scoring function is never called and no probability or label exists;
\* when the frame was assembled, the error is the projection's KeyError
\* naming exactly the missing columns.
C6_UnknownFeatureFails ==
    Predicted /\ ~(Range(model_info.features) \subseteq Range(AssembledColumns)) =>
        /\ run.error # None
        /\ run.scored = <<>>
        /\ run.input_data = None
        /\ run.prob = None
        /\ run.pred = None
        /\ run.display = ExceptHandler(Unwrap(run.error))
        /\ (run.frame # None =>
                run.error = Some(KeyError(Range(model_info.features)
                                            \ Range(AssembledColumns))))

C6_Witness ==
    /\ Predicted
    /\ model_info.features = << "CONFID", "OVERCOME", "TENSE" >>
    /\ run.frame # None
    /\ run.error = Some(KeyError({"CONFID", "OVERCOME"}))
    /\ run.scored = <<>>

LikertList == << "Never", "Almost Never", "Sometimes", "Fairly Often", "Very Often" >>

HealthList == << "Excellent", "Very Good", "Good", "Fair", "Poor" >>

ScaleCodeOf ==
    [control |-> "control_val", confid |-> "confid_val", yourway |-> "yourway_val",
     overcome |-> "overcome_val"]

\* C7: after a prediction request, each stress code and the health code is
\* the 1-based position of the supplied label in its five-label list, the
\* two lookups map their five labels one-to-one onto 1..5, and a request
\* with a label outside its list has failed with an error and has no code,
\* frame, probability or label.
C7_OrdinalCodes ==
    /\ run.codes # None =>
        /\ \A f \in ScaleFields :
            \E k \in 1..5 : /\ LikertList[k] = answers[f]
                            /\ Unwrap(run.codes)[ScaleCodeOf[f]] = k
        /\ \E k \in 1..5 : /\ HealthList[k] = answers.health
                           /\ Unwrap(run.codes).health_val = k
    /\ DOMAIN scale_reverse = Range(LikertList)
    /\ DOMAIN health_map = Range(HealthList)
    /\ { scale_reverse[l] : l \in DOMAIN scale_reverse } = 1..5
    /\ { health_map[l] : l \in DOMAIN health_map } = 1..5
    /\ Predicted /\ ( \/ answers.health \notin Range(HealthList)
                      \/ \E f \in ScaleFields : answers[f] \notin Range(LikertList) ) =>
        /\ run.error # None
        /\ Unwrap(run.error).type = "KeyError"
        /\ run.codes = None
        /\ run.frame = None
        /\ run.prob = None
        /\ run.pred = None

C7_Witness ==
    /\ Predicted
    /\ answers.control = "Very Often"
    /\ answers.overcome = "Rarely"
    /\ run.error = Some(KeyError({"Rarely"}))
    /\ run.codes = None

\* C8: the P_STRESS of the assembled frame is the plain sum of the four
\* stress codes, lies in 4..20, and less the frame's CONTROL and YOURWAY
\* lies in 2..10.
C8_StressSum ==
    run.frame # None =>
        LET c == Unwrap(run.codes)
            full == Unwrap(run.frame)
        IN  /\ {c.control_val, c.confid_val, c.yourway_val, c.overcome_val} \subseteq 1..5
            /\ Cell(full, "P_STRESS")
                 = c.control_val + c.confid_val + c.yourway_val + c.overcome_val
            /\ Cell(full, "P_STRESS") \in 4..20
            /\ Cell(full, "CONTROL") = c.control_val
            /\ Cell(full, "YOURWAY") = c.yourway_val
            /\ Cell(full, "P_STRESS") - Cell(full, "CONTROL") - Cell(full, "YOURWAY")
                 \in 2..10

C8_Witness ==
    /\ run.frame # None
    /\ answers.control = "Almost Never"
    /\ answers.confid = "Sometimes"
    /\ answers.yourway = "Fairly Often"
    /\ answers.overcome = "Very Often"
    /\ Cell(Unwrap(run.frame), "P_STRESS") = 14

ScoringRaised ==
    /\ Len(run.scored) >= 1
    /\ ~predict_proba(model_info.model, run.scored[1]).ok

\* C9: when the scoring function raised on the assembled vector, the request
\* ends with the error element carrying the raised exception and nothing
\* else on the page (no results header, probability, verdict or gauge), no
\* probability or label exists, and the scoring function was called once.
C9_ScoringFailureSurfaced ==
    ScoringRaised =>
        LET e == predict_proba(model_info.model, run.scored[1]).exc
        IN  /\ run.error = Some(e)
            /\ run.display = ExceptHandler(e)
            /\ Unwrap(run.display[1].cause) = e
            /\ run.prob = None
            /\ run.pred = None
            /\ \A i \in DOMAIN run.display :
                   run.display[i].widget \notin {"subheader", "write", "success", "plotly_chart"}
            /\ Len(run.scored) = 1

C9_Witness ==
    /\ ScoringRaised
    /\ model_info.features = << "P_STRESS", "TENSE" >>
    /\ run.error = Some(ValueError("feature names mismatch"))

====
